---- MODULE Spec2Model ----
(***************************************************************************)
(* drinfo (src/main.c): one run of the drive report.  The run scans the    *)
(* mount table, scans the GVFS directory for cloud storage, sorts the      *)
(* collected drive_info_t records by capacity and prints them.             *)
(*                                                                         *)
(* C strings are TLA+ strings (TLC evaluates Len, SubSeq and \o on them).  *)
(* The bytes of a rendered progress bar are a sequence of one-byte tokens: *)
(* "ESC" is the byte 033 and "E2", "96", "88", "91" are the bytes of the   *)
(* UTF-8 encodings of the two glyphs of the bar.                           *)
(* A double is modelled by the exact rational it approximates, written     *)
(* [num |-> n, den |-> d]; den = 0 is the result of a division by zero     *)
(* (inf or NaN).                                                           *)
(* The model covers a run without -h/-v, and a terminal that is not        *)
(* resized while the run lasts.                                            *)
(***************************************************************************)
EXTENDS Integers, Sequences, FiniteSets, TLC

(***************************************************************************)
(* Program constants (src/main.c:19-81).                                   *)
(***************************************************************************)
TERM_FALLBACK_WIDTH == 80
MAX_PATH_LENGTH == 1024
MAX_SIZE_STR_LENGTH == 64
TERMINAL_WIDTH_PERCENTAGE == 4
TERMINAL_WIDTH_DIVISOR == 5
MAX_BOX_WIDTH == 120
MIN_BOX_WIDTH == 40
FRAME_PADDING == 4
BRACKET_PADDING == 2
MIN_BAR_LENGTH == 10
MAX_COLOR_VALUE == 255
COLOR_RATIO_MULTIPLIER == 2
MAX_DRIVES == 100
BYTES_PER_KB == 1024
MAX_UNIT_INDEX == 4

(***************************************************************************)
(* Bounds of the model.                                                    *)
(***************************************************************************)
\* longest mount table of the hosts of Spec
MaxMounts == 2
\* longest GVFS directory listing of the hosts of Spec
MaxGvfs == 1
\* the hosts of SpecCap have mount tables of up to MAX_DRIVES + CapExtra entries
CapExtra == 1
\* largest f_blocks of the statvfs answers of the hosts of SpecUsage
MaxBlocks == 6
\* the byte counts format_bytes is called on have MaxLimbs digits in base 1024
MaxLimbs == 6
\* longest bar get_bar_color is called on alone
MaxColorLength == 120

(***************************************************************************)
(* String helpers: strncmp(s, p, Len(p)) == 0, strstr(s, sub) != NULL and  *)
(* the truncating copy strncpy(dst, s, size - 1); dst[size - 1] = 0.       *)
(***************************************************************************)
HasPrefix(s, p) == Len(s) >= Len(p) /\ SubSeq(s, 1, Len(p)) = p

Contains(s, sub) ==
    \E k \in 1..(Len(s) - Len(sub) + 1) : SubSeq(s, k, k + Len(sub) - 1) = sub

Truncate(s, size) == IF Len(s) > size - 1 THEN SubSeq(s, 1, size - 1) ELSE s

\* the bytes of an ASCII string, one token each
Chars(s) == [k \in 1..Len(s) |-> SubSeq(s, k, k)]

Digit(d) == SubSeq("0123456789", d + 1, d + 1)

\* printf("%d", n) for n >= 0
RECURSIVE Decimal(_)
Decimal(n) == IF n < 10 THEN Digit(n) ELSE Decimal(n \div 10) \o Digit(n % 10)

\* the value of one decimal digit, as sscanf("%d") reads it
DigitValue(c) == CHOOSE d \in 0..9 : Digit(d) = c

IsDigit(c) == \E d \in 0..9 : Digit(d) = c

(***************************************************************************)
(* The classifier.                                                         *)
(***************************************************************************)
skip_filesystems ==
    {"proc", "sysfs", "devpts", "tmpfs", "devtmpfs", "securityfs",
     "cgroup", "cgroup2", "pstore", "efivarfs", "autofs", "debugfs",
     "tracefs", "configfs", "fusectl", "fuse.gvfsd-fuse", "binfmt_misc",
     "fuse.portal"}

is_physical_device(fsname) ==
    \/ HasPrefix(fsname, "/dev/sd")
    \/ HasPrefix(fsname, "/dev/nvme")
    \/ HasPrefix(fsname, "/dev/hd")

is_network_device(fsname) ==
    \/ HasPrefix(fsname, "//")
    \/ HasPrefix(fsname, "\\\\")
    \/ Contains(fsname, ":")

is_network_filesystem(fstype) ==
    \/ fstype = "nfs"
    \/ fstype = "nfs4"
    \/ fstype = "cifs"
    \/ fstype = "smb"
    \/ fstype = "smb3"
    \/ fstype = "fuse.sshfs"
    \/ fstype = "fuse.rclone"
    \/ fstype = "fuse.gvfsd-fuse"
    \/ HasPrefix(fstype, "fuse.")

\* is_appimage_or_temp without the test of "/tmp/" in the mount point
is_appimage_or_temp_NoTmp(fsname, mountpoint) ==
    \/ Contains(fsname, ".AppImage")
    \/ Contains(mountpoint, "/tmp/.mount_")

is_appimage_or_temp(fsname, mountpoint) ==
    \/ Contains(fsname, ".AppImage")
    \/ Contains(mountpoint, "/tmp/.mount_")
    \/ Contains(mountpoint, "/tmp/")

\* main, the loop over skip_filesystems: should_skip
should_skip(e) == e.mnt_type \in skip_filesystems

\* Reportable without the test that keeps physical and network drives only
Reportable_NoAccept(e) ==
    /\ ~should_skip(e)
    /\ ~is_appimage_or_temp(e.mnt_fsname, e.mnt_dir)

\* Reportable without the test of should_skip
Reportable_NoSkip(e) ==
    /\ ~(/\ ~is_physical_device(e.mnt_fsname)
         /\ ~is_network_device(e.mnt_fsname)
         /\ ~is_network_filesystem(e.mnt_type))
    /\ ~is_appimage_or_temp(e.mnt_fsname, e.mnt_dir)

\* main, the three filters an entry passes before statvfs is called
Reportable(e) ==
    /\ ~should_skip(e)
    /\ ~(/\ ~is_physical_device(e.mnt_fsname)
         /\ ~is_network_device(e.mnt_fsname)
         /\ ~is_network_filesystem(e.mnt_type))
    /\ ~is_appimage_or_temp(e.mnt_fsname, e.mnt_dir)

\* DriveType with the network test made before the physical one
DriveType_NetworkFirst(e) ==
    IF is_network_filesystem(e.mnt_type) \/ is_network_device(e.mnt_fsname)
    THEN "Network Drive"
    ELSE IF is_physical_device(e.mnt_fsname) THEN "Local Drive"
         ELSE "Other Drive"

\* main, "Determine drive type"
DriveType(e) ==
    IF is_physical_device(e.mnt_fsname) THEN "Local Drive"
    ELSE IF is_network_filesystem(e.mnt_type) \/ is_network_device(e.mnt_fsname)
         THEN "Network Drive"
         ELSE "Other Drive"

(***************************************************************************)
(* Metrics.  The unsigned 64-bit products and differences of the code do   *)
(* not wrap for the statistics of the model (f_bavail <= f_blocks,         *)
(* f_favail <= f_files, and products far below 2^64).                      *)
(***************************************************************************)
Rat(n, d) == [num |-> n, den |-> d]

\* calculate_usage_percent with used = total + available
calculate_usage_percent_Sum(total, available) ==
    IF total = 0 THEN Rat(0, 1)
    ELSE LET used == total + available IN Rat(used * 100, total)

calculate_usage_percent(total, available) ==
    IF total = 0 THEN Rat(0, 1)
    ELSE LET used == total - available IN Rat(used * 100, total)

\* main, "Calculate sizes"
TotalBytes(fs) == fs.f_blocks * fs.f_frsize
AvailableBytes(fs) == fs.f_bavail * fs.f_frsize
UsedBytes(fs) == TotalBytes(fs) - AvailableBytes(fs)

\* main, "Inode-Infos"
MountInodes(fs) ==
    LET total_inodes == fs.f_files
        free_inodes  == fs.f_favail
        used_inodes  == IF total_inodes > 0 THEN total_inodes - free_inodes ELSE 0
    IN [total_inodes |-> total_inodes,
        used_inodes  |-> used_inodes,
        inode_usage  |-> IF total_inodes > 0
                         THEN Rat(used_inodes * 100, total_inodes)
                         ELSE Rat(0, 1)]

\* get_cloud_storage_info, the last three arguments of fill_drive_info
CloudInodes(fs) ==
    [total_inodes |-> fs.f_blocks,
     used_inodes  |-> fs.f_files,
     inode_usage  |-> Rat(fs.f_files, fs.f_blocks)]

(***************************************************************************)
(* Size formatting.  The unsigned long long argument of format_bytes is    *)
(* written as its seven digits in base BYTES_PER_KB, lowest first (the     *)
(* highest is below 16), and so is the double it is converted to; a        *)
(* division by 1024.0 of that double is exact.                             *)
(***************************************************************************)
RECURSIVE Pow2(_)
Pow2(n) == IF n = 0 THEN 1 ELSE 2 * Pow2(n - 1)

\* the place of the highest digit that is not 0 (1 if there is none)
Top(x) ==
    IF \A k \in 1..Len(x) : x[k] = 0 THEN 1
    ELSE CHOOSE k \in 1..Len(x) : x[k] # 0 /\ \A j \in (k + 1)..Len(x) : x[j] = 0

\* the number of bits of n
BitLen(n) == CHOOSE b \in 0..30 : n < Pow2(b) /\ (b = 0 \/ n >= Pow2(b - 1))

\* the carries of the digits from place k on are passed up; the highest digit
\* keeps its carry
RECURSIVE Carry(_, _)
Carry(x, k) ==
    IF k >= Len(x) THEN x
    ELSE IF x[k] < BYTES_PER_KB THEN Carry(x, k + 1)
    ELSE LET y == [x EXCEPT ![k] = @ - BYTES_PER_KB, ![k + 1] = @ + 1]
         IN IF y[k] >= 0 THEN Carry(y, k + 1) ELSE y

\* "double size = bytes": the value rounded to 53 significant bits, ties to even
ToDouble(x) ==
    LET bits == 10 * (Top(x) - 1) + BitLen(x[Top(x)])
        cut  == bits - 53
    IN IF cut <= 0 THEN x
       ELSE LET inlow == IF cut < 10 THEN cut ELSE 10
                low == IF cut <= 10 THEN x[1] % Pow2(cut)
                       ELSE x[1] + BYTES_PER_KB * (x[2] % 2)
                odd == IF cut < 10 THEN (x[1] \div Pow2(cut)) % 2 = 1
                       ELSE IF cut = 10 THEN x[2] % 2 = 1
                       ELSE (x[2] \div 2) % 2 = 1
                up  == low > Pow2(cut - 1) \/ (low = Pow2(cut - 1) /\ odd)
                kept == [k \in 1..Len(x) |->
                           IF k = 1 THEN x[1] - (x[1] % Pow2(inlow))
                           ELSE IF k = 2 /\ cut > 10 THEN x[2] - (x[2] % 2)
                           ELSE x[k]]
                more == [k \in 1..Len(x) |->
                           IF k = 1 /\ cut < 10 THEN kept[1] + Pow2(cut)
                           ELSE IF k = 2 /\ cut >= 10 THEN kept[2] + Pow2(cut - 10)
                           ELSE kept[k]]
            IN IF up THEN Carry(more, 1) ELSE kept

\* the digits from place k on, as a number
RECURSIVE Whole(_, _)
Whole(x, k) == IF k > Len(x) THEN 0 ELSE x[k] + BYTES_PER_KB * Whole(x, k + 1)

\* 100 times the k lowest digits: the digits of the product at the same places
\* and what is carried beyond them
RECURSIVE Times100(_, _)
Times100(x, k) ==
    IF k = 0 THEN [out |-> <<>>, carry |-> 0]
    ELSE LET p == Times100(x, k - 1)
             v == x[k] * 100 + p.carry
         IN [out |-> Append(p.out, v % BYTES_PER_KB), carry |-> v \div BYTES_PER_KB]

units == <<"B", "KB", "MB", "GB", "TB">>

\* the number of passes when the loop tests size > BYTES_PER_KB
UnitIndex_Strict(size) ==
    LET power == size[Top(size)] = 1 /\ \A k \in 1..(Top(size) - 1) : size[k] = 0
        n == IF power /\ Top(size) > 1 THEN Top(size) - 2 ELSE Top(size) - 1
    IN IF n < MAX_UNIT_INDEX THEN n ELSE MAX_UNIT_INDEX

\* the number of passes of "while (size >= BYTES_PER_KB && unit_index <
\* MAX_UNIT_INDEX)" for the double size
UnitIndex(size) ==
    IF Top(size) - 1 < MAX_UNIT_INDEX THEN Top(size) - 1 ELSE MAX_UNIT_INDEX

\* format_bytes: the string snprintf writes into buffer ("%.2f" rounds the
\* value to the nearest hundredth, ties to even)
format_bytes(bytes) ==
    LET size == ToDouble(bytes)
        unit_index == UnitIndex(size)
        whole == Whole(size, unit_index + 1)
        p     == Times100(size, unit_index)
        half  == BYTES_PER_KB \div 2
        below == \E j \in 1..(unit_index - 1) : p.out[j] # 0
        up    == /\ unit_index > 0
                 /\ \/ p.out[unit_index] > half
                    \/ p.out[unit_index] = half /\ (below \/ p.carry % 2 = 1)
        hundredths == whole * 100 + p.carry + (IF up THEN 1 ELSE 0)
    IN IF unit_index = 0
       THEN Decimal(whole) \o " " \o units[unit_index + 1]
       ELSE Decimal(hundredths \div 100) \o "." \o Digit((hundredths \div 10) % 10)
            \o Digit(hundredths % 10) \o " " \o units[unit_index + 1]

(***************************************************************************)
(* Terminal geometry.  term is the answer of ioctl(TIOCGWINSZ).            *)
(***************************************************************************)
get_terminal_width(term) == IF term.ok THEN term.ws_col ELSE TERM_FALLBACK_WIDTH

BoxWidth(term) ==
    LET w == (get_terminal_width(term) * TERMINAL_WIDTH_PERCENTAGE)
                 \div TERMINAL_WIDTH_DIVISOR
    IN IF w > MAX_BOX_WIDTH THEN MAX_BOX_WIDTH
       ELSE IF w < MIN_BOX_WIDTH THEN MIN_BOX_WIDTH ELSE w

ContentWidth(term) == BoxWidth(term) - FRAME_PADDING

BarLength(term) ==
    LET n == ContentWidth(term) - BRACKET_PADDING
    IN IF n < MIN_BAR_LENGTH THEN MIN_BAR_LENGTH ELSE n


(***************************************************************************)
(* The bar renderer.                                                       *)
(***************************************************************************)
\* Single-precision arithmetic.  A float is written [m |-> m, s |-> s], the
\* number m * 2^-s with m < 2^24; the integers of the model stay below 2^31.
\* n / d rounded to the nearest integer, ties to the even one
RoundHalfEven(n, d) ==
    LET q == n \div d
        r == n % d
    IN IF 2 * r > d \/ (2 * r = d /\ q % 2 = 1) THEN q + 1 ELSE q

\* the least exponent s >= from with n * 2^s >= lim
RECURSIVE ScaleUp(_, _, _)
ScaleUp(n, lim, from) ==
    IF n * Pow2(from) >= lim THEN from ELSE ScaleUp(n, lim, from + 1)

\* the ratio with max for max - 1
FloatRatio_OverMax(idx, max) ==
    IF idx = 0 THEN [m |-> 0, s |-> 24]
    ELSE LET s == ScaleUp(idx, Pow2(23) * max, 23)
             m == RoundHalfEven(idx * Pow2(s), max)
         IN IF m = Pow2(24) THEN [m |-> Pow2(23), s |-> s - 1]
            ELSE [m |-> m, s |-> s]

\* (float)idx / (float)(max - 1), for 0 <= idx <= max - 1 < 128: the quotient
\* rounded to 24 significant bits
FloatRatio(idx, max) ==
    IF idx = 0 THEN [m |-> 0, s |-> 24]
    ELSE LET s == ScaleUp(idx, Pow2(23) * (max - 1), 23)
             m == RoundHalfEven(idx * Pow2(s), max - 1)
         IN IF m = Pow2(24) THEN [m |-> Pow2(23), s |-> s - 1]
            ELSE [m |-> m, s |-> s]

\* floor(m * c / 2^t), computed without the product m * c
MulFloor(m, c, t) == (m \div Pow2(t)) * c + ((m % Pow2(t)) * c) \div Pow2(t)

\* m * c / 2^t rounded to the nearest integer, ties to the even one
MulRound(m, c, t) ==
    LET q   == MulFloor(m, c, t)
        rem == ((m % Pow2(t)) * c) % Pow2(t)
    IN IF 2 * rem > Pow2(t) \/ (2 * rem = Pow2(t) /\ q % 2 = 1) THEN q + 1 ELSE q

\* the bits the product m * c has beyond 24, for c < 2^8: the least t <= from
\* with floor(m * c / 2^t) < 2^24
RECURSIVE ExtraBits(_, _, _)
ExtraBits(m, c, from) ==
    IF from = 0 \/ MulFloor(m, c, from - 1) >= Pow2(24) THEN from
    ELSE ExtraBits(m, c, from - 1)

\* (int)(x * c) for the float x and the integer c < 2^8: the product is
\* rounded to 24 significant bits and then truncated
FloatTimesToInt(x, c) ==
    LET t == ExtraBits(x.m, c, 8)
        q == MulRound(x.m, c, t)
    IN IF x.s >= t THEN q \div Pow2(x.s - t) ELSE q * Pow2(t - x.s)

\* get_bar_color: the bytes snprintf(buffer, size, COLOR_FORMAT, r, g, b) writes
get_bar_color(idx, max) ==
    LET ratio == FloatRatio(idx, max)
        low == 2 * ratio.m < Pow2(ratio.s)        \* ratio < COLOR_RATIO_HALF
        \* ratio * COLOR_RATIO_MULTIPLIER
        twice == [m |-> ratio.m, s |-> ratio.s - 1]
        \* 1.0f - (ratio - COLOR_RATIO_HALF) * COLOR_RATIO_MULTIPLIER, which is
        \* 2 * (1 - ratio): no rounding for 1/2 <= ratio <= 1
        rest == [m |-> Pow2(24) - ratio.m * Pow2(24 - ratio.s), s |-> 23]
        r == IF low THEN FloatTimesToInt(twice, MAX_COLOR_VALUE) ELSE MAX_COLOR_VALUE
        g == IF low THEN MAX_COLOR_VALUE ELSE FloatTimesToInt(rest, MAX_COLOR_VALUE)
        b == 0
    IN <<"ESC">> \o Chars("[38;2;" \o Decimal(r) \o ";" \o Decimal(g) \o ";"
                          \o Decimal(b) \o "m")

\* sscanf("%d"): the integer whose digits start at position k of buf
RECURSIVE ReadInt(_, _, _)
ReadInt(buf, k, acc) ==
    IF k <= Len(buf) /\ IsDigit(buf[k])
    THEN ReadInt(buf, k + 1, acc * 10 + DigitValue(buf[k]))
    ELSE [val |-> acc, next |-> k]

\* sscanf(colorbuf, COLOR_FORMAT, &r, &g, &b)
ScanColor(buf) ==
    LET r == ReadInt(buf, 8, 0)
        g == ReadInt(buf, r.next + 1, 0)
        b == ReadInt(buf, g.next + 1, 0)
    IN [r |-> r.val, g |-> g.val, b |-> b.val]

\* snprintf(percent_text, ..., PERCENT_FORMAT, usage_percent): one decimal,
\* rounded to nearest, ties to even
PercentText(u) ==
    LET q  == (u.num * 10) \div u.den
        rm == (u.num * 10) % u.den
        tenths == IF 2 * rm > u.den THEN q + 1
                  ELSE IF 2 * rm = u.den THEN q + (q % 2)
                  ELSE q
    IN Decimal(tenths \div 10) \o "." \o Digit(tenths % 10) \o "%"

\* FilledLength rounded up instead of truncated
FilledLength_RoundedUp(u, bar_length) ==
    (u.num * bar_length + u.den * 100 - 1) \div (u.den * 100)

\* (int)((usage_percent / USAGE_PERCENT_DIVISOR) * bar_length), for the exact
\* usage; for the usages and bar lengths of the hosts below (10, 34 and 58
\* cells) the product computed in doubles truncates to the same number
FilledLength(u, bar_length) == (u.num * bar_length) \div (u.den * 100)

\* the text pushed to the end of the filled cells
TextStart_RightAligned(filled_length, text_length) ==
    IF filled_length > text_length THEN filled_length - text_length ELSE 0

\* int text_start = filled_length > text_length ? (filled_length - text_length) / 2 : 0
TextStart(filled_length, text_length) ==
    IF filled_length > text_length THEN (filled_length - text_length) \div 2 ELSE 0

\* one pass of the loop "for (int i = 0; i < bar_length; i++)": the cell appended
\* to the bar at index idx (a cell is written with the colour that was printed
\* into colorbuf read back as numbers)
BarCell(idx, filled_length, percent_text, text_start, bar_length) ==
    IF /\ idx >= text_start
       /\ idx < text_start + Len(percent_text)
       /\ idx < filled_length
    THEN LET c == ScanColor(get_bar_color(idx, bar_length))
         IN [kind |-> "text", r |-> c.r, g |-> c.g, b |-> c.b,
             ch |-> SubSeq(percent_text, idx - text_start + 1, idx - text_start + 1)]
    ELSE IF idx < filled_length
    THEN LET c == ScanColor(get_bar_color(idx, bar_length))
         IN [kind |-> "block", r |-> c.r, g |-> c.g, b |-> c.b, ch |-> "block"]
    ELSE [kind |-> "track", r |-> 160, g |-> 160, b |-> 160, ch |-> "shade"]

\* the bar of a drive of usage u: its cells, in the order they are appended
ProgressBar(u, bar_length) ==
    LET filled_length == FilledLength(u, bar_length)
        percent_text  == PercentText(u)
        text_length   == Len(percent_text)
        text_start    == TextStart(filled_length, text_length)
    IN [k \in 1..bar_length |->
          BarCell(k - 1, filled_length, percent_text, text_start, bar_length)]

RESET_FORMAT == <<"ESC", "[", "0", "m">>
FullBlock == <<"E2", "96", "88">>
LightShade == <<"E2", "96", "91">>

\* the bytes strncat appends to the bar for one cell
CellBytes(c) ==
    IF c.kind = "text"
    THEN <<"ESC">> \o Chars("[48;2;" \o Decimal(c.r) \o ";" \o Decimal(c.g) \o ";"
                            \o Decimal(c.b) \o "m")
         \o <<"ESC">> \o Chars("[38;2;0;0;255m") \o <<c.ch>> \o RESET_FORMAT
    ELSE IF c.kind = "block"
    THEN <<"ESC">> \o Chars("[38;2;" \o Decimal(c.r) \o ";" \o Decimal(c.g) \o ";"
                            \o Decimal(c.b) \o "m")
         \o FullBlock \o RESET_FORMAT
    ELSE <<"ESC">> \o Chars("[48;2;64;64;64m") \o <<"ESC">>
         \o Chars("[38;2;160;160;160m") \o LightShade \o RESET_FORMAT

\* visible_length: its loop "for (; *s; ++s)" from byte k of s on, entered with
\* the values len and in_escape
RECURSIVE ScanBytes(_, _, _, _)
ScanBytes(len, in_escape, s, k) ==
    IF k > Len(s) THEN [len |-> len, in_escape |-> in_escape]
    ELSE IF s[k] = "ESC" THEN ScanBytes(len, 1, s, k + 1)
    ELSE IF in_escape = 1 /\ s[k] = "m" THEN ScanBytes(len, 0, s, k + 1)
    ELSE IF in_escape = 0 THEN ScanBytes(len + 1, in_escape, s, k + 1)
    ELSE ScanBytes(len, in_escape, s, k + 1)

\* the same loop over the bytes of the cells lo .. hi of a bar, entered with
\* the values st.len and st.in_escape: the loop over the first half of the
\* cells, then the loop over the second half entered with the values the first
\* left (the halving keeps the evaluation shallow; the test of half makes TLC
\* evaluate half before the second loop is entered, and it is always true)
RECURSIVE ScanCells(_, _, _, _)
ScanCells(st, bar, lo, hi) ==
    IF lo > hi THEN st
    ELSE IF lo = hi THEN ScanBytes(st.len, st.in_escape, CellBytes(bar[lo]), 1)
    ELSE LET mid == (lo + hi) \div 2
             half == ScanCells(st, bar, lo, mid)
         IN IF half.in_escape \in {0, 1} THEN ScanCells(half, bar, mid + 1, hi)
            ELSE half

\* visible_length(drive->progress_bar)
visible_length(bar) == ScanCells([len |-> 0, in_escape |-> 0], bar, 1, Len(bar)).len

\* the spaces printf("%*s", width, "") writes: a negative width is a
\* left-justified field of the absolute width
PadSpaces(width) == IF width < 0 THEN 0 - width ELSE width

(***************************************************************************)
(* The records.                                                            *)
(***************************************************************************)
GVFS_PATH == "/run/user/1000/gvfs"

\* the test on entry->d_name in is_cloud_storage_directory and
\* get_cloud_storage_info
IsCloudName(d_name) ==
    \/ Contains(d_name, "google-drive")
    \/ Contains(d_name, "dropbox")
    \/ Contains(d_name, "onedrive")
    \/ Contains(d_name, "mega")

\* get_cloud_storage_info, "Determine cloud service name"
ServiceName(d_name) ==
    IF Contains(d_name, "google-drive") THEN "Google Drive"
    ELSE IF Contains(d_name, "dropbox") THEN "Dropbox"
    ELSE IF Contains(d_name, "onedrive") THEN "OneDrive"
    ELSE IF Contains(d_name, "mega") THEN "MEGA"
    ELSE "Cloud Storage"

\* snprintf(full_path, sizeof(full_path), "%s/%s", gvfs_path, entry->d_name)
FullPath(d_name) == Truncate(GVFS_PATH \o "/" \o d_name, MAX_PATH_LENGTH)

\* main: the record fill_drive_info stores for a mount-table entry
MountRecord(e, fs, term, bar) ==
    LET u   == calculate_usage_percent(TotalBytes(fs), AvailableBytes(fs))
        ino == MountInodes(fs)
    IN [mount_point      |-> Truncate(e.mnt_dir, MAX_PATH_LENGTH),
        filesystem       |-> Truncate(e.mnt_type, MAX_SIZE_STR_LENGTH),
        device           |-> Truncate(e.mnt_fsname, MAX_PATH_LENGTH),
        total_bytes      |-> TotalBytes(fs),
        used_bytes       |-> UsedBytes(fs),
        available_bytes  |-> AvailableBytes(fs),
        usage_percent    |-> u,
        drive_type       |-> DriveType(e),
        progress_bar     |-> ProgressBar(u, BarLength(term)),
        bar_addr         |-> bar,
        is_cloud_storage |-> FALSE,
        cloud_service_name |-> "",
        total_inodes     |-> ino.total_inodes,
        used_inodes      |-> ino.used_inodes,
        inode_usage      |-> ino.inode_usage]

\* get_cloud_storage_info: the record fill_drive_info stores for a GVFS entry
CloudRecord(d_name, fs, term, bar) ==
    LET u   == calculate_usage_percent(TotalBytes(fs), AvailableBytes(fs))
        ino == CloudInodes(fs)
    IN [mount_point      |-> Truncate(FullPath(d_name), MAX_PATH_LENGTH),
        filesystem       |-> "fuse.gvfsd-fuse",
        device           |-> Truncate(d_name, MAX_PATH_LENGTH),
        total_bytes      |-> TotalBytes(fs),
        used_bytes       |-> UsedBytes(fs),
        available_bytes  |-> AvailableBytes(fs),
        usage_percent    |-> u,
        drive_type       |-> "Network Drive",
        progress_bar     |-> ProgressBar(u, BarLength(term)),
        bar_addr         |-> bar,
        is_cloud_storage |-> TRUE,
        cloud_service_name |-> ServiceName(d_name),
        total_inodes     |-> ino.total_inodes,
        used_inodes      |-> ino.used_inodes,
        inode_usage      |-> ino.inode_usage]

\* the content of the global colorbuf after the bar of usage u was built: the
\* colour of the last filled cell, if there is one
ColorbufAfter(old, u, bar_length) ==
    LET filled_length == FilledLength(u, bar_length)
        last_filled   == (IF filled_length > bar_length THEN bar_length
                          ELSE filled_length) - 1
    IN IF last_filled < 0 THEN old ELSE get_bar_color(last_filled, bar_length)

(***************************************************************************)
(* The aggregator.                                                         *)
(***************************************************************************)
\* compare_drives_by_capacity with the two results exchanged (ascending order)
compare_drives_by_capacity_Ascending(a, b) ==
    IF b.total_bytes > a.total_bytes THEN -1
    ELSE IF b.total_bytes < a.total_bytes THEN 1
    ELSE 0

compare_drives_by_capacity(a, b) ==
    IF b.total_bytes > a.total_bytes THEN 1
    ELSE IF b.total_bytes < a.total_bytes THEN -1
    ELSE 0

\* HasRoom with <= for <
HasRoom_OffByOne(count) == count <= MAX_DRIVES

\* the loop conditions "drive_count < MAX_DRIVES" of main and
\* "*drive_count < MAX_DRIVES" of get_cloud_storage_info
HasRoom(count) == count < MAX_DRIVES

\* the null pointer
NULL == 0

\* two records that differ at most in the address of the bar
SameContent(a, b) == [a EXCEPT !.bar_addr = NULL] = [b EXCEPT !.bar_addr = NULL]

\* qsort(drives, drive_count, sizeof(drive_info_t), compare_drives_by_capacity):
\* the array is left in some order that the comparator accepts; the order of
\* elements that compare equal is unspecified.  Orders(ds, idx) is the set of
\* the arrangements of the elements ds[k], k in idx; of the arrangements that
\* differ only in the places of records with the same content, the one that
\* keeps these records in their order stands for all.
RECURSIVE Orders(_, _)
Orders(ds, idx) ==
    IF idx = {} THEN {<<>>}
    ELSE LET first == {k \in idx :
                         \A j \in idx : compare_drives_by_capacity(ds[k], ds[j]) <= 0}
             reps  == {k \in first : \A j \in first : SameContent(ds[j], ds[k]) => k <= j}
         IN UNION {{<<ds[k]>> \o t : t \in Orders(ds, idx \ {k})} : k \in reps}

QsortOutcomes(ds) == Orders(ds, 1..Len(ds))

(***************************************************************************)
(* The hosts a run is checked on.  A host fixes whether /proc/mounts can   *)
(* be opened, how many entries the mount table has, the listing of the     *)
(* GVFS directory and the terminal; its profile names the sets the entries *)
(* of the mount table, the answers of statvfs and the answers of malloc    *)
(* are drawn from.                                                         *)
(***************************************************************************)
Mnt(fsname, dir, type) == [mnt_fsname |-> fsname, mnt_dir |-> dir, mnt_type |-> type]

ClassifyMounts ==
    {Mnt("/dev/sda1", "/", "ext4"),
     Mnt("/dev/sdd1", "/", "ext4"),
     Mnt("/dev/nvme0n1p2", "/home", "btrfs"),
     Mnt("/dev/hda1", "/mnt/old", "vfat"),
     Mnt("/dev/sdb1", "/mnt/data", "fuse.exfat"),
     Mnt("server:/export", "/mnt/nfs", "nfs"),
     Mnt("//server/share", "/mnt/smb", "cifs"),
     Mnt("\\\\server\\share", "/mnt/win", "smb3"),
     Mnt("/tmp/.mount_AppImageXYZ/disk", "/mnt/app", "fuse.sshfs"),
     Mnt("tool.AppImage", "/tmp/.mount_toolXYZ", "fuse.tool"),
     Mnt("app.AppImage", "/run/user/1000/app", "fuse.app"),
     Mnt("user@host:/home", "/tmp/ssh", "fuse.sshfs"),
     Mnt("/dev/sdc1", "/var/tmp/usb", "ext4"),
     Mnt("/dev/loop0", "/snap/core", "squashfs"),
     Mnt("proc", "/proc", "proc"),
     Mnt("tmpfs", "/run", "tmpfs"),
     Mnt("nas:/vol", "/net/vol", "autofs"),
     Mnt("gvfsd-fuse", "/run/user/1000/gvfs", "fuse.gvfsd-fuse"),
     Mnt("portal", "/run/user/1000/doc", "fuse.portal")}

MetricsMounts ==
    {Mnt("/dev/sda1", "/", "ext4"),
     Mnt("proc", "/proc", "proc")}

CapMounts == {Mnt("/dev/sda1", "/", "ext4")}

\* the entries getmntent can return on a host of the profile
MountPool(profile) ==
    IF profile = "classify" THEN ClassifyMounts
    ELSE IF profile = "metrics" THEN MetricsMounts
    ELSE CapMounts

Stat(ret, blocks, frsize, bavail, files, favail) ==
    [ret |-> ret, f_blocks |-> blocks, f_frsize |-> frsize, f_bavail |-> bavail,
     f_files |-> files, f_favail |-> favail]

\* fs_info before statvfs was called, and after it failed
NoStat == Stat(-1, 0, 0, 0, 0, 0)

MetricsStats ==
    {Stat(0, 0, 4, 0, 0, 0),
     Stat(0, 10, 1, 5, 8, 2),
     Stat(0, 25, 2, 10, 0, 0),
     Stat(0, 30, 1, 29, 8, 8),
     NoStat}

MetricsCloudStats ==
    {Stat(0, 0, 4, 0, 0, 0),
     Stat(0, 10, 1, 5, 8, 2),
     Stat(0, 30, 1, 0, 4, 4),
     NoStat}

\* every f_blocks up to MaxBlocks with every f_bavail up to it, in two block sizes
UsageStats ==
    UNION {{Stat(0, b, f, a, 8, 2) : a \in 0..b, f \in {1, 512}} : b \in 0..MaxBlocks}

StatAnswers(profile) ==
    IF profile = "metrics" THEN MetricsStats
    ELSE IF profile = "usage" THEN UsageStats
    ELSE {Stat(0, 10, 1, 5, 8, 2)}

\* the answers of statvfs(full_path) for the entries of the GVFS directory
CloudStatAnswers(profile) ==
    IF profile = "cap" THEN {Stat(0, 30, 1, 0, 4, 4)}
    ELSE IF profile = "metrics" THEN MetricsCloudStats
    ELSE StatAnswers(profile)

\* malloc(bar_bufsize) != NULL
MallocAnswers(profile) == IF profile = "metrics" THEN {TRUE, FALSE} ELSE {TRUE}

Dirent(name, dir) == [d_name |-> name, is_dir |-> dir]

\* two GVFS directories, in the order readdir returns their entries
GvfsDirs ==
    {<<Dirent("dropbox", TRUE), Dirent("sftp:host=nas", TRUE),
       Dirent("onedrive", TRUE)>>,
     <<Dirent("google-drive:host=gmail.com", TRUE), Dirent("mega", FALSE),
       Dirent("mega", TRUE)>>}

\* the listings of at most n entries: the directories cut after n entries
Listings(n) ==
    UNION {{SubSeq(d, 1, k) : k \in 0..(IF n < Len(d) THEN n ELSE Len(d))} :
           d \in GvfsDirs}

Term(ok, cols) == [ok |-> ok, ws_col |-> cols]

Host(profile, mtab_ok, nmounts, gvfs, term) ==
    [profile |-> profile, mtab_ok |-> mtab_ok, nmounts |-> nmounts,
     gvfs |-> gvfs, term |-> term]

ClassifyHosts ==
    {Host("classify", TRUE, n, <<>>, Term(TRUE, 50)) : n \in 0..MaxMounts}

MetricsHosts ==
    {Host("metrics", TRUE, n, g, Term(TRUE, 50)) :
        n \in 0..MaxMounts, g \in Listings(MaxGvfs)}
    \cup {Host("metrics", TRUE, 1, <<>>, Term(FALSE, 0)),
          Host("metrics", FALSE, 0, <<>>, Term(TRUE, 50))}

UsageHosts ==
    {Host("usage", TRUE, 1, <<>>, Term(FALSE, 0)),
     Host("usage", TRUE, 0, <<Dirent("dropbox", TRUE)>>, Term(FALSE, 0)),
     Host("usage", FALSE, 0, <<>>, Term(FALSE, 0))}

CapHosts ==
    {Host("cap", TRUE, n, g, Term(TRUE, 50)) :
        n \in (MAX_DRIVES - 1)..(MAX_DRIVES + CapExtra),
        g \in {<<>>,
               <<Dirent("dropbox", TRUE), Dirent("google-drive:host=gmail.com", TRUE)>>}}
    \cup {Host("cap", FALSE, 0, <<>>, Term(TRUE, 50))}

\* an unsigned long long from its lowest digits in base BYTES_PER_KB
U64(ds) == [k \in 1..7 |-> IF k <= Len(ds) THEN ds[k] ELSE 0]

\* byte counts whose MaxLimbs lowest digits are 0, 1, 512 or 1023 (the seventh
\* digit of an unsigned long long is below 16), and some more: 1152, 1664 and
\* 1920 (ties of the second decimal), 2^53 + 1, and the largest number
FormatInputs ==
    {x \in [1..7 -> {0, 1, 512, 1023}] :
        \A k \in 1..7 : (k > MaxLimbs \/ k = 7) => x[k] \in (IF k > MaxLimbs THEN {0}
                                                             ELSE {0, 1})}
    \cup {U64(<<128, 1>>), U64(<<640, 1>>), U64(<<896, 1>>),
          U64(<<1, 0, 0, 0, 0, 8>>),
          U64(<<1023, 1023, 1023, 1023, 1023, 1023, 15>>)}

\* the calls format_bytes(bytes, buffer, buffer_size) that are checked
FormatCalls == {[fn |-> "format_bytes", bytes |-> x] : x \in FormatInputs}

\* the bars whose first cell get_bar_color(0, max, ...) is about to colour
GradientCalls ==
    {[fn |-> "get_bar_color", idx |-> 0, max |-> n] : n \in 2..MaxColorLength}

(***************************************************************************)
(* The state of a run.                                                     *)
(***************************************************************************)
VARIABLES
    host,         \* the host the run is on
    pc,           \* the position of main: "start", "scan", "gvfs", "cloud",
                  \* "sort", "print", "done"
    nread,        \* the mount-table entries getmntent has returned
    entry,        \* main's entry: <<>> is NULL, <<e>> points to e
    gread,        \* the GVFS entries readdir has returned
    dirent,       \* get_cloud_storage_info's entry, as for entry
    fs_info,      \* the answer of the last statvfs
    bar,          \* the last pass's bar: "unset" before malloc, "NULL", or "buf"
    last,         \* how the last pass of a scan loop ended: "filtered",
                  \* "statfail", "nomem", "stored", or "none"
    drives,       \* drives[0 .. drive_count-1]
    drive_count,
    colorbuf,     \* the global colorbuf
    i,            \* the index of main's print loop
    printed,      \* per printed block: title, number, mount point and the
                  \* bar_padding of its bar line
    status,       \* the exit status, -1 while the run lasts
    heap,         \* the blocks malloc has returned, by address 1, 2, ...: "live",
                  \* "freed", or "freed twice"
    call,         \* the call that is checked: [fn |-> "main"] for a run of the
                  \* program, or a call of get_bar_color or format_bytes alone
    ret           \* what the last call of the function alone returned: <<>>
                  \* before it, <<value>> after it

vars == <<host, pc, nread, entry, gread, dirent, fs_info, bar, last, drives,
          drive_count, colorbuf, i, printed, status, heap, call, ret>>

InitOn(hosts) ==
    /\ host \in hosts
    /\ pc = "start"
    /\ nread = 0
    /\ entry = <<>>
    /\ gread = 0
    /\ dirent = <<>>
    /\ fs_info = NoStat
    /\ bar = "unset"
    /\ last = "none"
    /\ drives = <<>>
    /\ drive_count = 0
    /\ colorbuf = <<>>
    /\ i = 0
    /\ printed = <<>>
    /\ status = -1
    /\ heap = <<>>

\* a run of the program
MainCall == call = [fn |-> "main"] /\ ret = <<>>

Init == InitOn(ClassifyHosts \cup MetricsHosts) /\ MainCall

InitCap == InitOn(CapHosts) /\ MainCall

InitUsage == InitOn(UsageHosts) /\ MainCall

\* a function of the program is called alone, before main has done anything
InitPure ==
    /\ InitOn({Host("pure", TRUE, 0, <<>>, Term(FALSE, 0))})
    /\ call \in GradientCalls \cup FormatCalls
    /\ ret = <<>>

(***************************************************************************)
(* main.                                                                   *)
(***************************************************************************)
\* setmntent(MOUNT_TABLE_PATH, "r") succeeds
OpenMounts ==
    /\ pc = "start"
    /\ host.mtab_ok
    /\ pc' = "scan"
    /\ UNCHANGED <<heap, call, ret, host, nread, entry, gread, dirent, fs_info, bar, last, drives,
                   drive_count, colorbuf, i, printed, status>>

\* setmntent fails: perror, return 1
OpenFail ==
    /\ pc = "start"
    /\ ~host.mtab_ok
    /\ pc' = "done"
    /\ status' = 1
    /\ UNCHANGED <<heap, call, ret, host, nread, entry, gread, dirent, fs_info, bar, last, drives,
                   drive_count, colorbuf, i, printed>>

\* the value of bar when a pass of a scan loop ends: malloc is called once the
\* pass has reached it, and bar_ok is its answer
\* char *bar = malloc(bar_bufsize): the address returned, NULL (0) when the
\* allocation fails, else a block that is not in use; no block has been freed
\* when main and get_cloud_storage_info allocate, so the block is a new one
Malloc(h, bar_ok) == IF bar_ok THEN Len(h) + 1 ELSE NULL

\* the heap after that call
HeapAfter(h, bar_ok) == IF bar_ok THEN Append(h, "live") ELSE h

\* the read of a string at address a: "live" when the block is allocated
Deref(h, a) == IF a = NULL THEN "NULL" ELSE h[a]

\* the heap when free is not called
Free_Skipped(h, a) == h

\* free(a): nothing for NULL
Free(h, a) ==
    IF a = NULL THEN h
    ELSE [h EXCEPT ![a] = IF @ = "live" THEN "freed" ELSE "freed twice"]

BarAfter(reached, bar_ok) ==
    IF ~reached THEN "unset" ELSE IF bar_ok THEN "buf" ELSE "NULL"

\* MountExit without the test "if (!bar)" of the result of malloc
MountExit_AllocIgnored(e, fs, bar_ok) ==
    IF ~Reportable(e) THEN "filtered"
    ELSE IF fs.ret # 0 THEN "statfail"
    ELSE "stored"

\* how one pass of the loop over the mount table ends for entry e, the statvfs
\* answer fs and the malloc answer bar_ok
MountExit(e, fs, bar_ok) ==
    IF ~Reportable(e) THEN "filtered"
    ELSE IF fs.ret # 0 THEN "statfail"
    ELSE IF ~bar_ok THEN "nomem"
    ELSE "stored"

\* one pass of "while ((entry = getmntent(mtab)) != NULL && drive_count < MAX_DRIVES)"
ReadMount ==
    /\ pc = "scan"
    /\ nread < host.nmounts
    /\ HasRoom(drive_count)
    /\ \E e \in MountPool(host.profile) :
       \E fs \in (IF Reportable(e) THEN StatAnswers(host.profile) ELSE {NoStat}) :
       \E bar_ok \in (IF Reportable(e) /\ fs.ret = 0
                      THEN MallocAnswers(host.profile) ELSE {FALSE}) :
          LET exit == MountExit(e, fs, bar_ok)
              rec  == MountRecord(e, fs, host.term, Malloc(heap, bar_ok))
          IN /\ entry' = <<e>>
             /\ fs_info' = fs
             /\ bar' = BarAfter(Reportable(e) /\ fs.ret = 0, bar_ok)
             /\ heap' = HeapAfter(heap, bar_ok)
             /\ last' = exit
             /\ IF exit = "stored"
                THEN /\ drives' = Append(drives, rec)
                     /\ drive_count' = drive_count + 1
                     /\ colorbuf' = ColorbufAfter(colorbuf, rec.usage_percent,
                                                  BarLength(host.term))
                ELSE UNCHANGED <<drives, drive_count, colorbuf>>
    /\ nread' = nread + 1
    /\ UNCHANGED <<call, ret, host, pc, gread, dirent, i, printed, status>>

\* the loop over the mount table ends: getmntent returns NULL, or it returns an
\* entry and drive_count < MAX_DRIVES is false; endmntent
EndMounts ==
    /\ pc = "scan"
    /\ nread = host.nmounts \/ ~HasRoom(drive_count)
    /\ IF nread < host.nmounts
       THEN /\ \E e \in MountPool(host.profile) : entry' = <<e>>
            /\ nread' = nread + 1
       ELSE /\ entry' = <<>>
            /\ nread' = nread
    /\ fs_info' = NoStat
    /\ bar' = "unset"
    /\ last' = "none"
    /\ pc' = "gvfs"
    /\ UNCHANGED <<heap, call, ret, host, gread, dirent, drives, drive_count, colorbuf,
                   i, printed, status>>

\* is_cloud_storage_directory(gvfs_path), for the listing dir of the directory
\* (empty when the directory cannot be opened)
is_cloud_storage_directory(dir) ==
    \E k \in 1..Len(dir) : dir[k].is_dir /\ IsCloudName(dir[k].d_name)

\* "if (is_cloud_storage_directory(gvfs_path))"
CheckGvfs ==
    /\ pc = "gvfs"
    /\ pc' = IF is_cloud_storage_directory(host.gvfs) THEN "cloud" ELSE "sort"
    /\ UNCHANGED <<heap, call, ret, host, nread, entry, gread, dirent, fs_info, bar, last, drives,
                   drive_count, colorbuf, i, printed, status>>

\* how one pass of the loop of get_cloud_storage_info ends
CloudExit(d, fs, bar_ok) ==
    IF ~(d.is_dir /\ IsCloudName(d.d_name)) THEN "filtered"
    ELSE IF fs.ret # 0 THEN "statfail"
    ELSE IF ~bar_ok THEN "nomem"
    ELSE "stored"

\* one pass of "while ((entry = readdir(dir)) != NULL && *drive_count < MAX_DRIVES)"
ReadGvfs ==
    /\ pc = "cloud"
    /\ gread < Len(host.gvfs)
    /\ HasRoom(drive_count)
    /\ LET d == host.gvfs[gread + 1]
           wanted == d.is_dir /\ IsCloudName(d.d_name)
       IN \E fs \in (IF wanted THEN CloudStatAnswers(host.profile) ELSE {NoStat}) :
          \E bar_ok \in (IF wanted /\ fs.ret = 0
                         THEN MallocAnswers(host.profile) ELSE {FALSE}) :
             LET exit == CloudExit(d, fs, bar_ok)
                 rec  == CloudRecord(d.d_name, fs, host.term, Malloc(heap, bar_ok))
             IN /\ dirent' = <<d>>
                /\ fs_info' = fs
                /\ bar' = BarAfter(wanted /\ fs.ret = 0, bar_ok)
                /\ heap' = HeapAfter(heap, bar_ok)
                /\ last' = exit
                /\ IF exit = "stored"
                   THEN /\ drives' = Append(drives, rec)
                        /\ drive_count' = drive_count + 1
                        /\ colorbuf' = ColorbufAfter(colorbuf, rec.usage_percent,
                                                     BarLength(host.term))
                   ELSE UNCHANGED <<drives, drive_count, colorbuf>>
    /\ gread' = gread + 1
    /\ UNCHANGED <<call, ret, host, pc, nread, entry, i, printed, status>>

\* the loop of get_cloud_storage_info ends (readdir returns NULL, or it returns
\* an entry and *drive_count < MAX_DRIVES is false); closedir, return
EndGvfs ==
    /\ pc = "cloud"
    /\ gread = Len(host.gvfs) \/ ~HasRoom(drive_count)
    /\ gread' = IF gread < Len(host.gvfs) THEN gread + 1 ELSE gread
    /\ dirent' = <<>>
    /\ fs_info' = NoStat
    /\ bar' = "unset"
    /\ last' = "none"
    /\ pc' = "sort"
    /\ UNCHANGED <<heap, call, ret, host, nread, entry, drives, drive_count, colorbuf,
                   i, printed, status>>

\* qsort(drives, drive_count, ...)
SortDrives ==
    /\ pc = "sort"
    /\ \E s \in QsortOutcomes(drives) : drives' = s
    /\ pc' = "print"
    /\ i' = 0
    /\ UNCHANGED <<heap, call, ret, host, nread, entry, gread, dirent, fs_info, bar, last,
                   drive_count, colorbuf, printed, status>>

\* the title line of a drive's block
Title(drive) == IF drive.is_cloud_storage THEN "Network Drive" ELSE drive.drive_type

\* one pass of "for (int i = 0; i < drive_count; i++)": the block of drives[i]
\* and its bar line are printed and the bar is freed
PrintDrive ==
    /\ pc = "print"
    /\ i < drive_count
    /\ LET drive == drives[i + 1]
           bar_visible_len == visible_length(drive.progress_bar)
           bar_padding == ContentWidth(host.term) - bar_visible_len
       IN printed' = Append(printed, [title |-> Title(drive),
                                      number |-> i + 1,
                                      mount_point |-> drive.mount_point,
                                      bar_padding |-> bar_padding,
                                      bar_read |-> Deref(heap, drive.bar_addr)])
    /\ heap' = Free(heap, drives[i + 1].bar_addr)
    /\ i' = i + 1
    /\ UNCHANGED <<call, ret, host, pc, nread, entry, gread, dirent, fs_info, bar, last, drives,
                   drive_count, colorbuf, status>>

\* the print loop ends: the summary line, return 0
Finish ==
    /\ pc = "print"
    /\ ~(i < drive_count)
    /\ pc' = "done"
    /\ status' = 0
    /\ UNCHANGED <<heap, call, ret, host, nread, entry, gread, dirent, fs_info, bar, last, drives,
                   drive_count, colorbuf, i, printed>>

Next ==
    \/ OpenMounts
    \/ OpenFail
    \/ ReadMount
    \/ EndMounts
    \/ CheckGvfs
    \/ ReadGvfs
    \/ EndGvfs
    \/ SortDrives
    \/ PrintDrive
    \/ Finish

\* get_bar_color(i, bar_length, colorbuf, sizeof(colorbuf)) in the loop over the
\* cells of a bar, i = 0, 1, ...; ret is the colour read back from colorbuf
GradientCell ==
    /\ call.fn = "get_bar_color"
    /\ call.idx < call.max
    /\ ret' = <<ScanColor(get_bar_color(call.idx, call.max))>>
    /\ call' = [call EXCEPT !.idx = @ + 1]
    /\ UNCHANGED <<heap, host, pc, nread, entry, gread, dirent, fs_info, bar, last, drives,
                   drive_count, colorbuf, i, printed, status>>

\* format_bytes(bytes, buffer, sizeof(buffer)); ret is the string in buffer
FormatCall ==
    /\ call.fn = "format_bytes"
    /\ ret = <<>>
    /\ ret' = <<format_bytes(call.bytes)>>
    /\ UNCHANGED <<heap, call, host, pc, nread, entry, gread, dirent, fs_info, bar, last,
                   drives, drive_count, colorbuf, i, printed, status>>

NextPure ==
    \/ GradientCell
    \/ FormatCall

Spec == Init /\ [][Next]_vars

SpecPure == InitPure /\ [][NextPure]_vars

SpecCap == InitCap /\ [][Next]_vars

SpecUsage == InitUsage /\ [][Next]_vars

(***************************************************************************)
(* The properties of the drive report.                                     *)
(***************************************************************************)
MountRecords == {k \in 1..Len(drives) : ~drives[k].is_cloud_storage}

\* C1: a mount-table record is collected only if its filesystem type is not in
\* the skip-set and its device path starts with /dev/sd, /dev/nvme or /dev/hd,
\* or starts with // or \\ or contains ':', or its type is nfs, nfs4, cifs, smb,
\* smb3 or starts with "fuse."; an entry whose type is in the skip-set is never
\* collected, whatever its device path.
C1_Accepted(device, type) ==
    /\ type \notin skip_filesystems
    /\ \/ HasPrefix(device, "/dev/sd")
       \/ HasPrefix(device, "/dev/nvme")
       \/ HasPrefix(device, "/dev/hd")
       \/ HasPrefix(device, "//")
       \/ HasPrefix(device, "\\\\")
       \/ Contains(device, ":")
       \/ type \in {"nfs", "nfs4", "cifs", "smb", "smb3"}
       \/ HasPrefix(type, "fuse.")

C1_CollectedOnlyIfAccepted ==
    /\ \A k \in MountRecords : C1_Accepted(drives[k].device, drives[k].filesystem)
    /\ (pc = "scan" /\ bar = "buf")
          => C1_Accepted(entry[1].mnt_fsname, entry[1].mnt_type)
    /\ (pc = "scan" /\ last # "none" /\ entry[1].mnt_type \in skip_filesystems)
          => bar = "unset" /\ fs_info = NoStat

\* C1 witness: fuse.portal, a skip-set type under the "fuse." prefix, was met
\* after a record was collected, and was not collected
C1_Witness ==
    /\ pc = "scan"
    /\ last = "filtered"
    /\ entry = <<Mnt("portal", "/run/user/1000/doc", "fuse.portal")>>
    /\ nread = 2
    /\ drive_count = 1

\* C2: the drive type of every collected mount-table record is decided in the
\* order physical -> network -> other; /dev/sda1 with ext4 is Local,
\* server:/export with nfs and //server/share with cifs are Network.
C2_DriveTypeOrder ==
    \A k \in MountRecords :
       LET r == drives[k]
       IN /\ is_physical_device(r.device) => r.drive_type = "Local Drive"
          /\ (/\ ~is_physical_device(r.device)
              /\ is_network_filesystem(r.filesystem) \/ is_network_device(r.device))
                => r.drive_type = "Network Drive"
          /\ (/\ ~is_physical_device(r.device)
              /\ ~is_network_filesystem(r.filesystem)
              /\ ~is_network_device(r.device))
                => r.drive_type = "Other Drive"
          /\ (r.device = "/dev/sda1" /\ r.filesystem = "ext4")
                => r.drive_type = "Local Drive"
          /\ (r.device = "server:/export" /\ r.filesystem = "nfs")
                => r.drive_type = "Network Drive"
          /\ (r.device = "//server/share" /\ r.filesystem = "cifs")
                => r.drive_type = "Network Drive"

\* C2 witness: a physical device with a network ("fuse.") type was collected as
\* a Local Drive, next to an nfs export collected as a Network Drive
C2_Witness ==
    /\ \E k \in MountRecords :
          /\ drives[k].device = "/dev/sdb1"
          /\ drives[k].filesystem = "fuse.exfat"
          /\ drives[k].drive_type = "Local Drive"
    /\ \E k \in MountRecords :
          /\ drives[k].device = "server:/export"
          /\ drives[k].filesystem = "nfs"
          /\ drives[k].drive_type = "Network Drive"

\* C3, as the claim states it: no collected mount record has a device path that
\* indicates an AppImage mount (it contains ".AppImage", or lies under
\* /tmp/.mount_...) or a mount point under /tmp/.
C3_AsClaimed ==
    \A k \in MountRecords :
       /\ ~Contains(drives[k].device, ".AppImage")
       /\ ~HasPrefix(drives[k].device, "/tmp/.mount_")
       /\ ~HasPrefix(drives[k].mount_point, "/tmp/")

\* C3: no collected mount record has a device path that contains ".AppImage"
\* or a mount point that contains "/tmp/" (AppImage mount points /tmp/.mount_*
\* among them), whatever its filesystem type; such an entry never reaches
\* statvfs.
C3_Excluded ==
    /\ \A k \in MountRecords :
          /\ ~Contains(drives[k].device, ".AppImage")
          /\ ~Contains(drives[k].mount_point, "/tmp/")
    /\ (/\ pc = "scan"
        /\ last # "none"
        /\ \/ Contains(entry[1].mnt_fsname, ".AppImage")
           \/ Contains(entry[1].mnt_dir, "/tmp/"))
          => bar = "unset" /\ fs_info = NoStat

\* C3 witness: an sshfs mount under /tmp/, of a network type and a network
\* device, was met after a record was collected, and was not collected
C3_Witness ==
    /\ pc = "scan"
    /\ last = "filtered"
    /\ entry = <<Mnt("user@host:/home", "/tmp/ssh", "fuse.sshfs")>>
    /\ nread = 2
    /\ drive_count = 1

Count(seq, x) == Cardinality({k \in 1..Len(seq) : seq[k] = x})

IsPermutation(a, b) ==
    /\ Len(a) = Len(b)
    /\ \A k \in 1..Len(a) : Count(a, a[k]) = Count(b, a[k])

NonIncreasing(ds) ==
    \A k \in 1..(Len(ds) - 1) : ds[k].total_bytes >= ds[k + 1].total_bytes

\* C4: the sort leaves a permutation of the collected records in non-increasing
\* order of total_bytes, and the print loop prints the records in that order,
\* each once.
C4_Step ==
    /\ (pc = "sort" /\ pc' = "print")
          => IsPermutation(drives, drives') /\ NonIncreasing(drives')
    /\ (pc = "print" /\ pc' = "print")
          => /\ drives' = drives
             /\ Len(printed') = Len(printed) + 1
             /\ Len(printed') = i'
             /\ printed'[i'].number = i'
             /\ printed'[i'].mount_point = drives[i'].mount_point
             /\ i' > 1 => drives[i' - 1].total_bytes >= drives[i'].total_bytes
    /\ (pc = "print" /\ pc' = "done")
          => Len(printed') = Len(drives') /\ drives' = drives

C4_SortedOutput == [][C4_Step]_vars

\* C4 witness: totals 10, 50 and 30 were collected, the 30 last (it is the
\* cloud record), and all three were printed in the order 50, 30, 10
C4_Witness ==
    /\ pc = "done"
    /\ Len(printed) = 3
    /\ Len(drives) = 3
    /\ drives[1].total_bytes = 50
    /\ drives[2].total_bytes = 30
    /\ drives[2].is_cloud_storage
    /\ drives[3].total_bytes = 10

\* C5: at every point of a run at most MAX_DRIVES records are collected, mount
\* and cloud records together; nothing is written at index MAX_DRIVES or beyond
\* of the array, and a run that met more qualifying entries ends with status 0.
C5_Bounded ==
    /\ drive_count <= MAX_DRIVES
    /\ Len(drives) = drive_count
    /\ Len(printed) <= drive_count
    /\ (pc = "done" /\ host.mtab_ok) => status = 0 /\ Len(printed) = drive_count

\* C5 witness: MAX_DRIVES - 1 mount records and one cloud record were collected,
\* a second cloud entry was met and not collected, and the run ended with 0
C5_Witness ==
    /\ pc = "done"
    /\ status = 0
    /\ drive_count = MAX_DRIVES
    /\ nread = MAX_DRIVES - 1
    /\ gread = 2
    /\ Len(printed) = MAX_DRIVES
    /\ Cardinality(MountRecords) = MAX_DRIVES - 1

\* C6: a pass of a scan loop in which statvfs or malloc fails stores nothing,
\* leaves drive_count alone and stays in the loop; a pass in which both succeed
\* appends its record behind the records collected before; every collected
\* record is printed and the run ends with status 0.
C6_Step ==
    /\ (pc \in {"scan", "cloud"} /\ last' # "none")
          => /\ pc' = pc
             /\ bar' # "buf"
                   => drives' = drives /\ drive_count' = drive_count
             /\ bar' = "buf"
                   => /\ fs_info'.ret = 0
                      /\ drive_count' = drive_count + 1
                      /\ Len(drives') = Len(drives) + 1
                      /\ SubSeq(drives', 1, Len(drives)) = drives
                      /\ drives'[Len(drives')].mount_point =
                            IF pc = "scan" THEN entry'[1].mnt_dir
                            ELSE FullPath(dirent'[1].d_name)
    /\ (pc' = "done" /\ host.mtab_ok)
          => status' = 0 /\ Len(printed') = drive_count' /\ Len(drives') = drive_count'

C6_FailureSkipsOneRecord == [][C6_Step]_vars

\* C6 witness: after one record was collected, statvfs or malloc failed for the
\* next qualifying entry, and the count is still one
C6_Witness ==
    /\ pc = "scan"
    /\ last \in {"statfail", "nomem"}
    /\ Reportable(entry[1])
    /\ nread = 2
    /\ drive_count = 1
    /\ Len(drives) = 1

\* C7, as the claim states it: no two collected records have the same mount
\* point.
C7_DistinctMountPoints ==
    \A a, b \in 1..Len(drives) :
       a # b => drives[a].mount_point # drives[b].mount_point

\* C8, as the claim states it: the record a pass has just stored, from the
\* mount table or from the GVFS directory, has total_inodes = f_files,
\* used_inodes = f_files - f_favail (0 if f_files is 0), and inode_usage = 0
\* whenever total_inodes = 0.
C8_InodeRule ==
    (pc \in {"scan", "cloud"} /\ last = "stored")
       => LET r == drives[Len(drives)]
          IN /\ r.total_inodes = fs_info.f_files
             /\ r.used_inodes = IF fs_info.f_files = 0 THEN 0
                                ELSE fs_info.f_files - fs_info.f_favail
             /\ r.total_inodes = 0
                   => r.inode_usage.num = 0 /\ r.inode_usage.den # 0

\* C9: for total >= available >= 0 the usage percentage of every collected
\* record is a number in [0, 100], it is 100 * used / total, it is 0 when
\* total is 0, and used_bytes = total_bytes - available_bytes.
C9_UsageInRange ==
    \A k \in 1..Len(drives) :
       LET r == drives[k]
           u == r.usage_percent
       IN (r.total_bytes >= r.available_bytes /\ r.available_bytes >= 0)
             => /\ u.den > 0
                /\ 0 <= u.num
                /\ u.num <= 100 * u.den
                /\ r.total_bytes = 0 => u.num = 0
                /\ r.used_bytes = r.total_bytes - r.available_bytes
                /\ u.num * r.total_bytes = 100 * r.used_bytes * u.den

\* C9 witness: a cloud record of 3 blocks of 512 bytes, one of them available,
\* was collected with a usage of two thirds of 100
C9_Witness ==
    \E k \in 1..Len(drives) :
       /\ drives[k].is_cloud_storage
       /\ drives[k].total_bytes = 3 * 512
       /\ drives[k].available_bytes = 512
       /\ drives[k].used_bytes = 2 * 512
       /\ 3 * drives[k].usage_percent.num = 200 * drives[k].usage_percent.den

\* C10, as the claim states it: for every printed drive the cells of the bar
\* plus the spaces printed behind it are as wide as the content width.
C10_BarLineWidth ==
    pc \in {"print", "done"}
       => \A k \in 1..Len(printed) :
             Len(drives[k].progress_bar) + PadSpaces(printed[k].bar_padding)
                = ContentWidth(host.term)

FilledCells(b) == {k \in 1..Len(b) : b[k].kind # "track"}

\* C11: the bar of every collected record has exactly bar_length cells; with
\* filled_length = floor(usage_percent / 100 * bar_length), a number between 0
\* and bar_length, the cells before filled_length are block glyphs or characters
\* of the percentage text and the cells from filled_length on are track glyphs;
\* a usage of 0 gives no filled cell and a usage of 100 no track cell.
C11_BarCells ==
    \A k \in 1..Len(drives) :
       LET b  == drives[k].progress_bar
           u  == drives[k].usage_percent
           bl == BarLength(host.term)
           filled_length == Cardinality(FilledCells(b))
       IN /\ Len(b) = bl
          /\ 0 <= filled_length /\ filled_length <= bl
          /\ filled_length * u.den * 100 <= u.num * bl
          /\ u.num * bl < (filled_length + 1) * u.den * 100
          /\ \A c \in 1..bl :
                /\ c <= filled_length => b[c].kind \in {"block", "text"}
                /\ c > filled_length => b[c].kind = "track"
          /\ u.num = 0 => FilledCells(b) = {}
          /\ u.num = 100 * u.den => FilledCells(b) = 1..bl

\* C11 witness: a record with two thirds of its space used has a bar whose
\* first floor(2/3 * bar_length) cells are filled, characters of the text and
\* block glyphs among them, and whose other cells are track glyphs
C11_Witness ==
    \E k \in 1..Len(drives) :
       LET b == drives[k].progress_bar
       IN /\ 3 * drives[k].usage_percent.num = 200 * drives[k].usage_percent.den
          /\ Len(b) = BarLength(host.term)
          /\ Cardinality(FilledCells(b)) = (2 * Len(b)) \div 3
          /\ \E c \in FilledCells(b) : b[c].kind = "text"
          /\ \E c \in FilledCells(b) : b[c].kind = "block"
          /\ b[Len(b)].kind = "track"

(***************************************************************************)
(* C12: the size strings.                                                  *)
(***************************************************************************)
\* the string format_bytes returned, split at its space
Rendered ==
    LET str == ret[1]
        sp  == CHOOSE k \in 1..Len(str) : SubSeq(str, k, k) = " "
        num == Chars(SubSeq(str, 1, sp - 1))
        int == ReadInt(num, 1, 0)
    IN [num |-> num, unit |-> SubSeq(str, sp + 1, Len(str)),
        int |-> int.val, point |-> int.next]

\* the hundredths a rendered number with two decimals stands for
Hundredths(x) ==
    x.int * 100 + DigitValue(x.num[x.point + 1]) * 10 + DigitValue(x.num[x.point + 2])

FormatReturned == call.fn = "format_bytes" /\ ret # <<>>

\* the part of C12 about units, decimals and the examples: format_bytes
\* divides by 1024 once per unit while the value is at least 1024 and the unit
\* is below TB, so the unit is the one of the highest base-1024 digit of the
\* byte count, TB from the fifth digit on; "B" is rendered without decimals,
\* the other units with exactly two; a count in B is rendered exactly and one
\* in KB to the nearest hundredth; 1023, 1024, 1536 and 2^40 render as
\* "1023 B", "1.00 KB", "1.50 KB" and "1.00 TB"
C12_Units ==
    FormatReturned =>
        LET x == Rendered
            b == call.bytes
            h == Top(b)
        IN /\ x.unit = units[IF h <= MAX_UNIT_INDEX THEN h ELSE MAX_UNIT_INDEX + 1]
           /\ x.point > 1
           /\ x.unit = "B" => x.point = Len(x.num) + 1 /\ x.int = b[1]
           /\ x.unit # "B" =>
                /\ Len(x.num) = x.point + 2
                /\ x.num[x.point] = "."
                /\ IsDigit(x.num[x.point + 1]) /\ IsDigit(x.num[x.point + 2])
           /\ x.unit = "KB" =>
                LET d == BYTES_PER_KB * Hundredths(x) - 100 * (b[1] + BYTES_PER_KB * b[2])
                IN 2 * d <= BYTES_PER_KB /\ -2 * d <= BYTES_PER_KB
           /\ b = U64(<<1023>>) => ret[1] = "1023 B"
           /\ b = U64(<<0, 1>>) => ret[1] = "1.00 KB"
           /\ b = U64(<<512, 1>>) => ret[1] = "1.50 KB"
           /\ b = U64(<<0, 0, 0, 0, 1>>) => ret[1] = "1.00 TB"

\* C12 as stated: the units, decimals and examples above, and for every unit
\* other than TB the rendered number is below 1024
C12_AsClaimed ==
    /\ C12_Units
    /\ FormatReturned /\ Rendered.unit # "TB" => Rendered.int < BYTES_PER_KB

\* C12, amended: the units, decimals and examples above, and for every unit
\* other than TB the value that is rendered is below 1024, so that the
\* rendered number is at most 1024.00 (a value within half a hundredth of
\* 1024 is rounded up to it)
C12_FormatBytes ==
    /\ C12_Units
    /\ FormatReturned /\ Rendered.unit # "TB" =>
          /\ call.bytes[Top(call.bytes)] < BYTES_PER_KB
          /\ Rendered.int <= BYTES_PER_KB
          /\ Rendered.int = BYTES_PER_KB => Hundredths(Rendered) = 100 * BYTES_PER_KB

\* 1048575 bytes have been rendered as "1024.00 KB"
C12_Witness ==
    /\ FormatReturned
    /\ call.bytes = U64(<<1023, 1023>>)
    /\ ret = <<"1024.00 KB">>

(***************************************************************************)
(* C13: the buffers of the bars.                                           *)
(***************************************************************************)
\* the records that hold address a in progress_bar
Holders(a) == {k \in 1..Len(drives) : drives[k].bar_addr = a}

\* C13: every bar buffer that has been allocated is attached to exactly one
\* collected record; it is released exactly once, right after the block of
\* its record is printed and before the next block (after i blocks, exactly
\* the buffers of the first i records of the sorted array are released, and
\* nothing is released before the print loop); a bar is read only while
\* its buffer is allocated, no buffer is released twice, and when the program
\* has ended with status 0 no buffer is left unreleased
C13_BarBuffers ==
    call.fn = "main" =>
        /\ \A a \in 1..Len(heap) : Cardinality(Holders(a)) = 1
        /\ \A k \in 1..Len(drives) : drives[k].bar_addr \in 1..Len(heap)
        /\ \A k \in 1..Len(drives) :
              heap[drives[k].bar_addr] =
                 (IF pc \in {"print", "done"} /\ k <= Len(printed) THEN "freed" ELSE "live")
        /\ \A k \in 1..Len(printed) : printed[k].bar_read = "live"
        /\ status = 0 => \A a \in 1..Len(heap) : heap[a] = "freed"

\* a run has ended with status 0 after it allocated three buffers, for two
\* mounts and a cloud directory, and printed the cloud record between the mounts
C13_Witness ==
    /\ pc = "done"
    /\ status = 0
    /\ Len(heap) = 3
    /\ \A a \in 1..3 : heap[a] = "freed"
    /\ drives[2].is_cloud_storage
    /\ drives[2].bar_addr = 3

(***************************************************************************)
(* C14: records of equal capacity.                                         *)
(***************************************************************************)
\* the place in ds of the record that holds the bar at address a
Place(ds, a) == CHOOSE p \in 1..Len(ds) : ds[p].bar_addr = a

\* C14: the sort keeps records with equal total_bytes in their relative
\* discovery order, the order in which they were collected
C14_Step ==
    pc = "sort" /\ pc' = "print" =>
        \A j, k \in 1..Len(drives) :
            j < k /\ drives[j].total_bytes = drives[k].total_bytes =>
                Place(drives', drives[j].bar_addr) < Place(drives', drives[k].bar_addr)

C14_StableSort == [][C14_Step]_vars

(***************************************************************************)
(* C15: the percentage text in the bar.                                    *)
(***************************************************************************)
Max(a, b) == IF a >= b THEN a ELSE b

\* the cells of bar b that show a character of the text
TextCells(b) == {c \in 1..Len(b) : b[c].kind = "text"}

\* C15: in the bar of every collected record, with text the usage formatted
\* as "%.1f%%", text_length its length, filled_length the number of filled
\* cells and text_start = max(0, (filled_length - text_length) / 2), the cell
\* at index i shows a character of the text exactly when text_start <= i <
\* text_start + text_length and i < filled_length, and the character is the
\* (i - text_start)-th of the text; no text cell is at or past filled_length;
\* if filled_length >= text_length the whole text lies in the filled cells
\* and the filled cells left and right of it differ in number by at most one;
\* if filled_length < text_length the first filled_length characters are
\* shown, from cell 0 on
C15_TextPlacement ==
    call.fn = "main" =>
      \A k \in 1..Len(drives) :
        LET b    == drives[k].progress_bar
            text == PercentText(drives[k].usage_percent)
            text_length   == Len(text)
            filled_length == Cardinality(FilledCells(b))
            text_start    == Max(0, (filled_length - text_length) \div 2)
            left  == text_start
            right == filled_length - text_start - text_length
        IN /\ \A c \in 1..Len(b) :
                LET idx == c - 1
                IN /\ b[c].kind = "text" <=>
                        /\ text_start <= idx
                        /\ idx < text_start + text_length
                        /\ idx < filled_length
                   /\ b[c].kind = "text" =>
                        b[c].ch = SubSeq(text, idx - text_start + 1, idx - text_start + 1)
           /\ \A c \in TextCells(b) : c - 1 < filled_length
           /\ filled_length >= text_length =>
                /\ TextCells(b) = (text_start + 1)..(text_start + text_length)
                /\ right >= 0
                /\ right - left \in {-1, 0, 1}
           /\ filled_length < text_length =>
                /\ TextCells(b) = 1..filled_length
                /\ \A c \in 1..filled_length : b[c].ch = SubSeq(text, c, c)

\* two records are collected: one with three fifths of its space used, whose
\* bar of 34 cells shows "60.0%" in the cells 7..11 of its 20 filled cells (7
\* filled cells before it, 8 after it), and one with a thirtieth used, whose
\* only filled cell shows "3", the first character of "3.3%"
C15_Witness ==
    \E j, k \in 1..Len(drives) :
       LET a == drives[j].progress_bar
           b == drives[k].progress_bar
       IN /\ Len(a) = 34 /\ Len(b) = 34
          /\ PercentText(drives[j].usage_percent) = "60.0%"
          /\ FilledCells(a) = 1..20
          /\ TextCells(a) = 8..12
          /\ a[8].ch \o a[9].ch \o a[10].ch \o a[11].ch \o a[12].ch = "60.0%"
          /\ PercentText(drives[k].usage_percent) = "3.3%"
          /\ FilledCells(b) = {1}
          /\ TextCells(b) = {1}
          /\ b[1].ch = "3"

(***************************************************************************)
(* C16: the gradient.                                                      *)
(***************************************************************************)
\* C16: for every bar length N > 1, get_bar_color(i, N) is (0, 255, 0) at
\* i = 0, (255, 0, 0) at i = N - 1 and (255, 255, 0) where i / (N - 1) is 0.5;
\* for every i in 0..N-1 each channel is in 0..255, blue is 0 and red or
\* green is 255; from one i to the next red does not decrease and green does
\* not increase.  (ret is the colour of cell i - 1 before the step and of
\* cell i after it.)
C16_Step ==
    call.fn = "get_bar_color" /\ call' # call =>
        LET idx == call.idx
            N   == call.max
            c   == ret'[1]
        IN /\ c.r \in 0..MAX_COLOR_VALUE
           /\ c.g \in 0..MAX_COLOR_VALUE
           /\ c.b = 0
           /\ c.r = MAX_COLOR_VALUE \/ c.g = MAX_COLOR_VALUE
           /\ idx = 0 => c = [r |-> 0, g |-> MAX_COLOR_VALUE, b |-> 0]
           /\ idx = N - 1 => c = [r |-> MAX_COLOR_VALUE, g |-> 0, b |-> 0]
           /\ 2 * idx = N - 1 => c = [r |-> MAX_COLOR_VALUE, g |-> MAX_COLOR_VALUE, b |-> 0]
           /\ idx > 0 => c.r >= ret[1].r /\ c.g <= ret[1].g

C16_Gradient == [][C16_Step]_vars

\* the cells 0..17 of a bar of 35 cells have been coloured, and cell 17, the
\* midpoint, is yellow
C16_Witness ==
    /\ call = [fn |-> "get_bar_color", idx |-> 18, max |-> 35]
    /\ ret = <<[r |-> 255, g |-> 255, b |-> 0]>>

(***************************************************************************)
(* C17: the drive types of the collected records.                          *)
(***************************************************************************)
\* the collected records with the cloud flag
CloudRecords == {k \in 1..Len(drives) : drives[k].is_cloud_storage}

\* C17: no collected record has the drive type "Other Drive": a record made
\* from the mount table is a "Local Drive" or a "Network Drive" and has the
\* cloud flag unset (no record is flagged before the GVFS directory is read,
\* and there are at most as many flagged records as GVFS entries read and at
\* most as many unflagged ones as mount entries read); a record made from the
\* GVFS directory is a "Network Drive" with the cloud flag set
C17_DriveTypes ==
    call.fn = "main" =>
        /\ \A k \in 1..Len(drives) :
              /\ drives[k].drive_type # "Other Drive"
              /\ drives[k].drive_type \in {"Local Drive", "Network Drive"}
              /\ drives[k].is_cloud_storage =>
                    /\ drives[k].drive_type = "Network Drive"
                    /\ HasPrefix(drives[k].mount_point, GVFS_PATH)
        /\ pc \in {"start", "scan", "gvfs"} => CloudRecords = {}
        /\ Cardinality(CloudRecords) <= gread
        /\ Len(drives) - Cardinality(CloudRecords) <= nread

\* a drive of the mount table and a cloud directory have been collected: a
\* "Local Drive" without the cloud flag and a "Network Drive" with it
C17_Witness ==
    /\ pc = "sort"
    /\ Len(drives) = 2
    /\ drives[1].drive_type = "Local Drive" /\ ~drives[1].is_cloud_storage
    /\ drives[2].drive_type = "Network Drive" /\ drives[2].is_cloud_storage
    /\ drives[2].cloud_service_name = "Dropbox"

====
